---- MODULE Spec2Model ----
(***************************************************************************)
(* A model of connectrum's StratumClient (src/connectrum/client.py): the   *)
(* request registry (inflight), the subscription registry, the dispatcher  *)
(* _got_response, the connection state (protocol, ka_task), connect,       *)
(* close, _connection_lost and the _keepalive task, on one asyncio loop.   *)
(***************************************************************************)
EXTENDS Integers, Sequences, FiniteSets, TLC

\* ---------------------------------------------------------------- bounds
MaxId    == 3      \* request ids allocated in a run: 2..MaxId
MaxChan  == 2      \* subscription queues created in a run
MaxNotes == 2      \* well-formed notifications delivered in a run
MaxConn  == 2      \* connections attempted in a run of SpecConn
MaxSess  == 1      \* connections attempted in a run of Spec and SpecSub

\* ---------------------------------------------------------------- values
\* Python's None, for the string-valued fields of a message
None == "None"

\* self.protocol / self.ka_task when they hold None
NoProtocol == 0
NoTask == 0

PingMethod == "server.version"
SubMethods == {"blockchain.numblocks.subscribe", "server.peers.subscribe"}
Methods == {PingMethod} \cup SubMethods
\* the names a caller passes to RPC ("version" has no dot)
RPCMethods == {PingMethod, "version"}

\* '.' in method
HasDot(method) == method \in Methods
\* method.endswith('subscribe')
EndsWithSubscribe(method) == method \in SubMethods

Payloads == {"p1", "p2"}     \* params of a notification
Results  == {"r1"}           \* result of a response
Errors   == {"e1"}           \* error object of a response
ReqParams == {<<>>}          \* positional params of a request

Ids == 2..MaxId

\* The decoded JSON objects the Transport may deliver: a dict is a record
\* whose DOMAIN is the set of keys present.
Responses ==
  [id : Ids, result : Results] \cup [id : Ids, error : Errors] \cup [id : Ids]
    \cup [id : Ids, result : Results, error : Errors]
Notifications == [method : SubMethods, params : Payloads]
Malformed ==
  [id : Ids, method : {"server.peers.subscribe"}, result : Results]
    \cup [id : Ids, method : {"server.peers.subscribe"}, params : {"p1"}]
    \cup [foo : {"bar"}] \cup [params : {"p1"}] \cup [result : Results]
    \cup [method : {""}, params : {"p1"}]
\* no message (an operation that dispatches nothing)
NoMsgV == [none |-> TRUE]

\* msg.get(key, None)
Get(msg, key) == IF key \in DOMAIN msg THEN msg[key] ELSE None

\* `not x` for a string or None
FalsyNever(x) == FALSE
Falsy(x) == x = None \/ x = ""

EmptyMap == [x \in {} |-> 0]
Put(f, k, v) == [x \in DOMAIN f \cup {k} |-> IF x = k THEN v ELSE f[x]]
Del(f, k) == [x \in DOMAIN f \ {k} |-> f[x]]

\* ------------------------------------------------------------- futures
Pending == [st |-> "pending"]
Cancelled == [st |-> "cancelled"]
\* fut.set_result(v)
SetResult(v) == [st |-> "fulfilled", val |-> v]
\* fut.set_exception(ElectrumErrorResponse(err, req))
SetExceptionGeneric(err, req) == [st |-> "failed", err |-> "error", req |-> req]
SetException(err, req) == [st |-> "failed", err |-> err, req |-> req]

\* ---------------------------------------------------- client state record
\* The operators below take and return the fields of one StratumClient as a
\* record s: next_id, inflight, futs, subscriptions, queues, ready, protocol.
\*   inflight      : id -> the request dict stored with its future
\*   futs          : id -> the state of the future created for that id
\*   subscriptions : method -> sequence of queue numbers (keys exist only
\*                   once a queue was appended: a defaultdict)
\*   queues        : queue number -> the payloads put so far
\*   ready         : the loop's FIFO of scheduled q.put(result) tasks

Ret(s, raised) == [s |-> s, raised |-> raised]

\* self.next_id += 1; req_id = self.next_id
NewIdStuck(n) == n
NewId(n) == n + 1

\* msg = {'id': req_id, 'method': method, 'params': params}
Request(req_id, method, params) ==
  [id |-> req_id, method |-> method, params |-> params]

\* self.inflight.pop(resp_id): the registry without the entry
PeekInflight(inflight, resp_id) == inflight
PopInflight(inflight, resp_id) == Del(inflight, resp_id)

\* result = msg.get('params', None): the payload of a notification
PayloadFromResult(msg) == Get(msg, "result")
Payload(msg) == Get(msg, "params")

\* for q in subs: self.loop.create_task(q.put(result))
PutTasks(subs, result) == [i \in 1..Len(subs) |-> [q |-> subs[i], v |-> result]]

\* the exception, if any, of rv.set_result / rv.set_exception on future f
Resolve(f, new) == IF f.st = "pending" THEN new ELSE f
ResolveRaises(f) == IF f.st = "pending" THEN "none" ELSE "InvalidStateError"

\* StratumClient._got_response(msg)
GotResponseF(s, msg) ==
  IF "id" \notin DOMAIN msg
  THEN LET method == Get(msg, "method") IN
       IF Falsy(method)
       THEN Ret(s, "none")
       ELSE LET result == Payload(msg) IN
            \* self.subscriptions.get(method) is None when method has no
            \* entry, and iterating None raises TypeError
            IF method \notin DOMAIN s.subscriptions
            THEN Ret(s, "TypeError")
            ELSE Ret([s EXCEPT !.ready =
                        @ \o PutTasks(s.subscriptions[method], result)],
                     "none")
  ELSE IF "method" \in DOMAIN msg
  THEN Ret(s, "AssertionError")
  ELSE LET resp_id == msg.id
           result == Get(msg, "result")
       IN
       \* dict.pop(key) without a default raises KeyError
       IF resp_id \notin DOMAIN s.inflight
       THEN Ret(s, "KeyError")
       ELSE LET req == s.inflight[resp_id]
                rv == s.futs[resp_id]
                new == IF "error" \in DOMAIN msg
                       THEN SetException(msg.error, req)
                       ELSE SetResult(result)
            IN Ret([s EXCEPT !.inflight = PopInflight(@, resp_id),
                             !.futs[resp_id] = Resolve(rv, new)],
                   ResolveRaises(rv))

\* what the Transport does inside send_data(msg): nothing more (NoMsgV), or
\* it calls back _got_response(sync) before send_data returns
SendData(s, sync) ==
  IF sync = NoMsgV THEN Ret(s, "none") ELSE GotResponseF(s, sync)

\* the registrations of _send_request, lines 130-143
Registered(s, method, params, is_subscribe) ==
  LET req_id == NewId(s.next_id)
      waitQ == Len(s.queues) + 1
      s1 == [s EXCEPT !.next_id = req_id]
      s2 == IF is_subscribe
            THEN [s1 EXCEPT
                   !.queues = Append(@, <<>>),
                   !.subscriptions =
                      Put(@, method,
                          IF method \in DOMAIN @
                          THEN Append(@[method], waitQ) ELSE <<waitQ>>)]
            ELSE s1
  IN [s2 EXCEPT !.futs = Put(@, req_id, Pending),
                !.inflight = Put(@, req_id, Request(req_id, method, params))]

\* a _send_request that hands the request to the Transport first and
\* registers afterwards
SendRequestLate(s, method, params, is_subscribe, sync) ==
  IF s.protocol = NoProtocol
  THEN Ret(Registered(s, method, params, is_subscribe), "AttributeError")
  ELSE LET r == SendData(s, sync)
       IN Ret(Registered(r.s, method, params, is_subscribe), r.raised)

\* a _send_request that looks for the Transport before it registers
SendRequestChecked(s, method, params, is_subscribe, sync) ==
  IF s.protocol = NoProtocol
  THEN Ret(s, "AttributeError")
  ELSE SendData(Registered(s, method, params, is_subscribe), sync)

\* StratumClient._send_request(method, params, is_subscribe)
SendRequestF(s, method, params, is_subscribe, sync) ==
  LET s3 == Registered(s, method, params, is_subscribe) IN
  \* self.protocol.send_data(msg): None has no attribute send_data
  IF s3.protocol = NoProtocol
  THEN Ret(s3, "AttributeError")
  ELSE SendData(s3, sync)

\* StratumClient.RPC(method, *params)
RPCF(s, method, params, sync) ==
  IF ~HasDot(method)
  THEN Ret(s, "AssertionError")
  ELSE SendRequestF(s, method, params, FALSE, sync)

\* StratumClient.subscribe(method, *params)
SubscribeF(s, method, params, sync) ==
  IF ~(HasDot(method) /\ EndsWithSubscribe(method))
  THEN Ret(s, "AssertionError")
  ELSE SendRequestF(s, method, params, TRUE, sync)

\* the index in the loop's ready queue of the task that runs next
ReadyLast(ready) == Len(ready)
ReadyHead(ready) == 1

\* task.cancel() of a _keepalive task: the task ends with CancelledError at
\* its await; a pending future it awaits is cancelled with it
CancelTask(task) ==
  IF task.pc \in {"start", "await", "sleep"}
  THEN [task EXCEPT !.pc = "cancelled"] ELSE task
CancelAwaited(futs, task) ==
  IF task.pc = "await" /\ futs[task.ping].st = "pending"
  THEN [futs EXCEPT ![task.ping] = Cancelled] ELSE futs

\* ------------------------------------------------------------------ state
VARIABLES
  protocol,       \* self.protocol: NoProtocol or a connection number
  ka_task,        \* self.ka_task: NoTask or a task number
  next_id,        \* self.next_id
  inflight,       \* self.inflight
  subscriptions,  \* self.subscriptions
  futs,           \* the futures created by _send_request, by request id
  queues,         \* the asyncio.Queue objects created by _send_request
  ready,          \* the loop's scheduled q.put(result) tasks, in order
  conns,          \* the connections of the Connector, by number
  tasks,          \* the _keepalive tasks created by connect, by number
  notified,       \* history: the notifications the Transport delivered
  since,          \* history: Len(notified) when each queue was registered
  issued,         \* history: the request ids in allocation order
  last            \* history: the operation that ran last

vars == <<protocol, ka_task, next_id, inflight, subscriptions, futs,
          queues, ready, conns, tasks, notified, since, issued, last>>

\* the client's fields as one record, and their next values from one
S == [next_id |-> next_id, inflight |-> inflight, futs |-> futs,
      subscriptions |-> subscriptions, queues |-> queues, ready |-> ready,
      protocol |-> protocol]

SetS(s) ==
  /\ next_id' = s.next_id
  /\ inflight' = s.inflight
  /\ futs' = s.futs
  /\ subscriptions' = s.subscriptions
  /\ queues' = s.queues
  /\ ready' = s.ready
  /\ protocol' = s.protocol

\* the shape of a delivered message, by the keys the dispatcher reads
Kind(msg) ==
  IF msg = NoMsgV THEN "none"
  ELSE IF "id" \in DOMAIN msg
       THEN (IF "method" \in DOMAIN msg THEN "id+method" ELSE "response")
       ELSE (IF Get(msg, "method") \in {None, ""}
             THEN "neither" ELSE "notification")

Last(op, msg, method, raised) ==
  [op |-> op, kind |-> Kind(msg), raised |-> raised]

\* a message the dispatcher takes as a notification: no id, a method
IsNotification(msg) == Kind(msg) = "notification"

\* the log of delivered notifications after the Transport delivered msg
Logged(log, msg) ==
  IF IsNotification(msg)
  THEN Append(log, [method |-> msg.method, params |-> Get(msg, "params")])
  ELSE log

\* StratumClient.__init__
Init ==
  /\ protocol = NoProtocol
  /\ ka_task = NoTask
  /\ next_id = 1
  /\ inflight = EmptyMap
  /\ subscriptions = EmptyMap
  /\ futs = EmptyMap
  /\ queues = <<>>
  /\ ready = <<>>
  /\ conns = <<>>
  /\ tasks = <<>>
  /\ notified = <<>>
  /\ since = <<>>
  /\ issued = <<>>
  /\ last = Last("init", NoMsgV, None, "none")

\* ------------------------------------------------------------ dispatcher
\* the Transport delivers msg: _got_response(msg)
GotResponse(msg) ==
  LET r == GotResponseF(S, msg)
      \* a notification no queue is registered for reaches no queue
      log == IF r.raised = "TypeError" THEN notified ELSE Logged(notified, msg)
  IN
  /\ Len(log) <= MaxNotes
  /\ SetS(r.s)
  /\ notified' = log
  /\ last' = Last("got_response", msg, None, r.raised)
  /\ UNCHANGED <<ka_task, conns, tasks, since, issued>>

\* the loop runs the next scheduled q.put(result): the queue is unbounded,
\* so the put completes in the task's first step
RunPut ==
  /\ ready # <<>>
  /\ LET i == ReadyHead(ready)
         task == ready[i]
     IN /\ queues' = [queues EXCEPT ![task.q] = Append(@, task.v)]
        /\ ready' = SubSeq(ready, 1, i - 1) \o SubSeq(ready, i + 1, Len(ready))
  /\ last' = Last("put", NoMsgV, None, "none")
  /\ UNCHANGED <<protocol, ka_task, next_id, inflight, subscriptions,
                 futs, conns, tasks, notified, since, issued>>

\* ------------------------------------------------------ call / subscribe
\* the history kept by a request operation that returned r from state S;
\* entered: the handler got past its assertions; sync: what the Transport
\* did inside send_data (NoMsgV when send_data was not reached)
Requested(r, entered, sync) ==
  /\ r.s.next_id <= MaxId
  /\ Len(r.s.queues) <= MaxChan
  /\ Len(Logged(notified, sync)) <= MaxNotes
  /\ SetS(r.s)
  /\ issued' = IF entered THEN Append(issued, r.s.next_id) ELSE issued
  /\ since' = IF Len(r.s.queues) > Len(queues)
              THEN Append(since, Len(notified)) ELSE since
  /\ notified' = Logged(notified, sync)

\* what the Transport may do inside send_data
Syncs == {NoMsgV} \cup [method : SubMethods, params : {"p1"}]

\* the handler reaches send_data with a Transport installed
Sends(entered) == entered /\ protocol # NoProtocol

RPC(method, params, sync) ==
  LET r == RPCF(S, method, params, sync)
      entered == HasDot(method)
  IN
  /\ Sends(entered) \/ sync = NoMsgV
  /\ Requested(r, entered, sync)
  /\ last' = Last("RPC", sync, method, r.raised)
  /\ UNCHANGED <<ka_task, conns, tasks>>

Subscribe(method, params, sync) ==
  LET r == SubscribeF(S, method, params, sync)
      entered == HasDot(method) /\ EndsWithSubscribe(method)
  IN
  /\ Sends(entered) \/ sync = NoMsgV
  /\ Requested(r, entered, sync)
  /\ last' = Last("subscribe", sync, method, r.raised)
  /\ UNCHANGED <<ka_task, conns, tasks>>

\* ------------------------------------------------------------ connection
\* A connection is "connecting" while create_connection is awaited,
\* "established" once the Connector has set it up and connect() is about to
\* resume with it, "open" once connect() installed it, "closing" once
\* closed locally (its loss callback is still to come), "closed" once its
\* loss was reported, "failed" when it could not be established.
Live(cs, c) == cs[c] \in {"established", "open"}

\* protocol.close(): the Transport terminates the connection
CloseTransport(cs, c) == [cs EXCEPT ![c] = "closing"]

\* the connection fields of the client as one record, and their next values
C == [protocol |-> protocol, ka_task |-> ka_task, conns |-> conns,
      tasks |-> tasks, futs |-> futs]

SetC(c) ==
  /\ protocol' = c.protocol
  /\ ka_task' = c.ka_task
  /\ conns' = c.conns
  /\ tasks' = c.tasks
  /\ futs' = c.futs

\* if self.ka_task: self.ka_task.cancel(); self.ka_task = None
CancelKAKeepsHandle(c) ==
  IF c.ka_task # NoTask
  THEN [c EXCEPT !.tasks[c.ka_task] = CancelTask(@),
                 !.futs = CancelAwaited(@, c.tasks[c.ka_task])]
  ELSE c
CancelKA(c) ==
  IF c.ka_task # NoTask
  THEN [c EXCEPT !.tasks[c.ka_task] = CancelTask(@),
                 !.futs = CancelAwaited(@, c.tasks[c.ka_task]),
                 !.ka_task = NoTask]
  ELSE c

\* StratumClient.close()
CloseKeepsProtocol(c) ==
  CancelKA(IF c.protocol # NoProtocol
           THEN [c EXCEPT !.conns = CloseTransport(@, c.protocol)]
           ELSE c)
CloseF(c) ==
  CancelKA(IF c.protocol # NoProtocol
           THEN [c EXCEPT !.conns = CloseTransport(@, c.protocol),
                          !.protocol = NoProtocol]
           ELSE c)

\* the Transports close() calls close() on, and the tasks it cancels
ClosedBy(c) == IF c.protocol # NoProtocol THEN {c.protocol} ELSE {}
CancelledBy(c) == IF c.ka_task # NoTask THEN {c.ka_task} ELSE {}

\* StratumClient._connection_lost(protocol), p the reporting connection
ConnectionLostAny(c, p) == CancelKA([c EXCEPT !.protocol = NoProtocol])
ConnectionLostF(c, p) ==
  IF p # c.protocol
  THEN c
  ELSE CancelKA([c EXCEPT !.protocol = NoProtocol])

\* connect(), lines 103-109, with the connection n create_connection gave
InstallF(c, n) ==
  LET old == IF c.protocol # NoProtocol
             THEN CloseTransport(c.conns, c.protocol) ELSE c.conns
  IN [c EXCEPT !.conns = [old EXCEPT ![n] = "open"],
               !.protocol = n,
               !.tasks = Append(@, [pc |-> "start", ping |-> 0]),
               !.ka_task = Len(c.tasks) + 1]

ProtoCodes == {"s", "t", "g"}

\* connect(), lines 59-102: up to the await of create_connection
\* (max bounds the connections attempted in a run)
Connect(proto_code, use_tor, proxy, max) ==
  /\ \/ /\ proto_code = "g"
        /\ last' = Last("connect", NoMsgV, None, "NotImplementedError")
        /\ UNCHANGED conns
     \/ /\ proto_code # "g"
        /\ use_tor /\ proxy
        /\ last' = Last("connect", NoMsgV, None, "AssertionError")
        /\ UNCHANGED conns
     \/ /\ proto_code # "g"
        /\ ~(use_tor /\ proxy)
        /\ Len(conns) < max
        /\ conns' = Append(conns, "connecting")
        /\ last' = Last("connect", NoMsgV, None, "none")
  /\ UNCHANGED <<protocol, ka_task, next_id, inflight, subscriptions,
                 futs, queues, ready, tasks, notified, since, issued>>

\* create_connection, awaited by connect(): the Connector has set up
\* connection c and wakes the connect() that awaits it
Established(c) ==
  /\ conns[c] = "connecting"
  /\ conns' = [conns EXCEPT ![c] = "established"]
  /\ last' = Last("established", NoMsgV, None, "none")
  /\ UNCHANGED <<protocol, ka_task, next_id, inflight, subscriptions,
                 futs, queues, ready, tasks, notified, since, issued>>

\* connect(), lines 103-111: create_connection returned connection c
ConnectDone(c) ==
  /\ conns[c] = "established"
  /\ SetC(InstallF(C, c))
  /\ last' = Last("connected", NoMsgV, None, "none")
  /\ UNCHANGED <<next_id, inflight, subscriptions, queues,
                 ready, notified, since, issued>>

\* connect(): create_connection raised for connection c
ConnectFail(c) ==
  /\ conns[c] = "connecting"
  /\ conns' = [conns EXCEPT ![c] = "failed"]
  /\ last' = Last("connect", NoMsgV, None, "ConnectionError")
  /\ UNCHANGED <<protocol, ka_task, next_id, inflight, subscriptions,
                 futs, queues, ready, tasks, notified, since, issued>>

\* StratumClient.close()
Close ==
  /\ SetC(CloseF(C))
  /\ last' = Last("close", NoMsgV, None, "none")
  /\ UNCHANGED <<next_id, inflight, subscriptions, queues, ready,
                 notified, since, issued>>

\* the Transport of connection c reports its loss: _connection_lost(c)
ConnectionLost(c) ==
  /\ conns[c] \in {"open", "closing"}
  /\ SetC([ConnectionLostF(C, c) EXCEPT !.conns[c] = "closed"])
  /\ last' = Last("connection_lost", NoMsgV, None, "none")
  /\ UNCHANGED <<next_id, inflight, subscriptions, queues, ready,
                 notified, since, issued>>

\* ------------------------------------------------------------- keepalive
\* the points of _keepalive from which it goes on to the loop test and the
\* next ping: its start, and the end of its sleep
KaMayPingAnytime(task) == task.pc \in {"start", "sleep", "await"}
KaMayPing(task) == task.pc \in {"start", "sleep"}

\* where _keepalive goes when the future f of its ping is done: "Server
\* version: " + vers raises TypeError unless vers is a str, and a failed
\* future raises its exception at the await
KaNextPcRetry(f) == "sleep"
KaNextPc(f) ==
  IF f.st = "fulfilled" /\ f.val # None THEN "sleep" ELSE "raised"

\* _keepalive: the loop test and the ping, up to the await of its future
KaRun(t) ==
  /\ KaMayPing(tasks[t])
  /\ IF protocol = NoProtocol
     THEN /\ tasks' = [tasks EXCEPT ![t].pc = "done"]
          /\ last' = Last("keepalive", NoMsgV, None, "none")
          /\ UNCHANGED <<next_id, inflight, subscriptions, futs, queues,
                         ready, protocol, issued>>
     ELSE LET r == RPCF(S, PingMethod, <<>>, NoMsgV) IN
          /\ r.s.next_id <= MaxId
          /\ SetS(r.s)
          /\ issued' = Append(issued, r.s.next_id)
          /\ tasks' = [tasks EXCEPT ![t] = [pc |-> "await", ping |-> r.s.next_id]]
          /\ last' = Last("keepalive", NoMsgV, PingMethod, r.raised)
  /\ UNCHANGED <<ka_task, conns, notified, since>>

\* _keepalive: its ping's future is done; log the version, then sleep(600)
KaResume(t) ==
  /\ tasks[t].pc = "await"
  /\ futs[tasks[t].ping].st \in {"fulfilled", "failed"}
  /\ LET f == futs[tasks[t].ping]
     IN /\ tasks' = [tasks EXCEPT ![t].pc = KaNextPc(f)]
        /\ last' = Last("keepalive", NoMsgV, None,
                        IF f.st = "failed" THEN "ElectrumErrorResponse"
                        ELSE IF f.val = None THEN "TypeError"
                        ELSE "none")
  /\ UNCHANGED <<protocol, ka_task, next_id, inflight, subscriptions,
                 futs, queues, ready, conns, notified, since, issued>>

\* ---------------------------------------------------------------- views
\* the messages with neither an id nor a method, and those with both
Neither == {msg \in Malformed : Kind(msg) = "neither"}
IdAndMethod == {msg \in Malformed : Kind(msg) = "id+method"}

\* the payloads queue q holds or is scheduled to get, in order
ReceivedIn(qs, rd, q) ==
  LET Mine(task) == task.q = q
      mine == SelectSeq(rd, Mine)
  IN qs[q] \o [i \in 1..Len(mine) |-> mine[i].v]
Received(q) == ReceivedIn(queues, ready, q)

\* the method queue q is registered under
MethodOf(subs, q) ==
  CHOOSE m \in DOMAIN subs : \E i \in 1..Len(subs[m]) : subs[m][i] = q

\* the payloads of the notifications for q's method that the Transport
\* delivered since q was registered, in delivery order
Expected(q) ==
  LET m == MethodOf(subscriptions, q)
      ForM(n) == n.method = m
      after == SelectSeq(SubSeq(notified, since[q] + 1, Len(notified)), ForM)
  IN [i \in 1..Len(after) |-> after[i].params]

IsPrefix(a, b) == Len(a) <= Len(b) /\ a = SubSeq(b, 1, Len(a))

\* ------------------------------------------------------------------ spec
\* Spec: calls, subscriptions, responses and malformed traffic on a client
\* that connects and closes, with the keepalive task.
Next ==
  \/ \E msg \in Responses \cup Malformed : GotResponse(msg)
  \/ \E m \in RPCMethods, p \in ReqParams : RPC(m, p, NoMsgV)
  \/ \E m \in {PingMethod, "server.peers.subscribe"}, p \in ReqParams :
       Subscribe(m, p, NoMsgV)
  \/ \E tor \in BOOLEAN, px \in BOOLEAN : Connect("s", tor, px, MaxSess)
  \/ \E c \in 1..Len(conns) : Established(c)
  \/ \E c \in 1..Len(conns) : ConnectDone(c)
  \/ Close
  \/ \E t \in 1..Len(tasks) : KaRun(t)
  \/ \E t \in 1..Len(tasks) : KaResume(t)

Spec == Init /\ [][Next]_vars

\* SpecConn: the connection life cycle (concurrent connects, failures,
\* losses, close) with the keepalive task and the responses to its pings.
NextConn ==
  \/ \E msg \in Responses : GotResponse(msg)
  \/ \E pc \in ProtoCodes, tor \in BOOLEAN, px \in BOOLEAN : Connect(pc, tor, px, MaxConn)
  \/ \E c \in 1..Len(conns) : Established(c)
  \/ \E c \in 1..Len(conns) : ConnectDone(c)
  \/ \E c \in 1..Len(conns) : ConnectFail(c)
  \/ Close
  \/ \E c \in 1..Len(conns) : ConnectionLost(c)
  \/ \E t \in 1..Len(tasks) : KaRun(t)
  \/ \E t \in 1..Len(tasks) : KaResume(t)

SpecConn == Init /\ [][NextConn]_vars

\* SpecSub: subscriptions and notification traffic, with a Transport that
\* may call back inside send_data, over connect and close.
NextSub ==
  \/ \E msg \in Notifications : GotResponse(msg)
  \/ RunPut
  \/ \E m \in SubMethods, p \in ReqParams, sync \in Syncs : Subscribe(m, p, sync)
  \/ \E tor \in BOOLEAN, px \in BOOLEAN : Connect("s", tor, px, MaxSess)
  \/ \E c \in 1..Len(conns) : Established(c)
  \/ \E c \in 1..Len(conns) : ConnectDone(c)
  \/ Close

SpecSub == Init /\ [][NextSub]_vars

\* --------------------------------------------------------------- claims
\* C1: dispatching a response {id: k, result: v} without an error field for
\* a registered call k whose result is pending fulfils that result with v
\* and removes k from the request registry in the same step; and a result
\* that has left the pending state never changes again.
C1_ResultRouting ==
  [][ /\ \A msg \in Responses :
           ( /\ last'.op = "got_response"
             /\ "error" \notin DOMAIN msg
             /\ msg.id \in DOMAIN inflight
             /\ futs[msg.id].st = "pending"
             /\ GotResponse(msg) )
           => /\ futs'[msg.id] = [st |-> "fulfilled", val |-> Get(msg, "result")]
              /\ msg.id \notin DOMAIN inflight'
              /\ last'.raised = "none"
      /\ \A k \in DOMAIN futs : futs[k].st # "pending" => futs'[k] = futs[k]
    ]_vars

\* C1 witness: a response has just fulfilled a call with "r1" and the call
\* is gone from the registry.
C1_Witness ==
  /\ last = [op |-> "got_response", kind |-> "response", raised |-> "none"]
  /\ \E k \in DOMAIN futs :
       /\ futs[k] = [st |-> "fulfilled", val |-> "r1"]
       /\ k \notin DOMAIN inflight

\* C2: a response whose id has no entry in the request registry is dropped:
\* the dispatcher returns without raising and the request registry, the
\* subscription registry and the connection state are unchanged.
C2_UnknownIdDropped ==
  [][ \A msg \in Responses :
        ( /\ last'.op = "got_response"
          /\ msg.id \notin DOMAIN inflight
          /\ GotResponse(msg) )
        => /\ last'.raised = "none"
           /\ inflight' = inflight
           /\ subscriptions' = subscriptions
           /\ protocol' = protocol
           /\ ka_task' = ka_task
    ]_vars

\* C3: dispatching a response {id: k, error: e} for a registered call k
\* whose result is pending fails that result with the server's error object
\* e and the request (id, method, params) registered for k, never fulfils it.
C3_ErrorRouting ==
  [][ \A msg \in Responses :
        ( /\ last'.op = "got_response"
          /\ "error" \in DOMAIN msg
          /\ msg.id \in DOMAIN inflight
          /\ futs[msg.id].st = "pending"
          /\ GotResponse(msg) )
        => /\ futs'[msg.id] =
                [st |-> "failed", err |-> msg.error, req |-> inflight[msg.id]]
           /\ inflight[msg.id].id = msg.id
           /\ inflight[msg.id].method \in Methods
           /\ msg.id \notin DOMAIN inflight'
    ]_vars

\* C3 witness: an error response has just failed a call with "e1" and the
\* call's own request.
C3_Witness ==
  /\ last = [op |-> "got_response", kind |-> "response", raised |-> "none"]
  /\ \E k \in DOMAIN futs :
       /\ futs[k].st = "failed"
       /\ futs[k].err = "e1"
       /\ futs[k].req.id = k
       /\ k \notin DOMAIN inflight

\* C4: over any interleaving of call, subscribe and keepalive pings the
\* request ids are strictly increasing in allocation order, and the first
\* id issued is 2.
C4_IdsIncrease ==
  /\ \A i, j \in 1..Len(issued) : i < j => issued[i] < issued[j]
  /\ issued # <<>> => issued[1] = 2
  /\ \A i \in 1..Len(issued) : issued[i] \in DOMAIN futs

\* C4 witness: a subscribe got id 2 and a keepalive ping the next id.
C4_Witness ==
  /\ Len(issued) >= 2
  /\ 2 \in DOMAIN inflight /\ inflight[2].method \in SubMethods
  /\ \E t \in 1..Len(tasks) : tasks[t].ping = 3

\* C5: when a notification {method: m, params: p} is dispatched, every queue
\* registered for m gets exactly p (the params field), once, after what it
\* already had, and the queues registered for other methods get nothing.
C5_FanOut ==
  [][ \A msg \in Notifications :
        ( /\ last'.op = "got_response"
          /\ msg.method \in DOMAIN subscriptions
          /\ GotResponse(msg) )
        => /\ Len(queues') = Len(queues)
           /\ \A q \in 1..Len(queues) :
                ReceivedIn(queues', ready', q) =
                  IF MethodOf(subscriptions, q) = msg.method
                  THEN Append(Received(q), msg.params)
                  ELSE Received(q)
    ]_vars

\* C5 witness: a notification was just dispatched while two queues were
\* registered for its method and both got its payload.
C5_Witness ==
  /\ last = [op |-> "got_response", kind |-> "notification", raised |-> "none"]
  /\ Len(queues) = 2
  /\ MethodOf(subscriptions, 1) = MethodOf(subscriptions, 2)
  /\ Len(notified) > since[2]
  /\ Received(1) # <<>> /\ Received(2) # <<>>
  /\ Received(2)[Len(Received(2))] = notified[Len(notified)].params

\* C6: what a queue holds is, in order, the payloads of the notifications
\* for its method that the Transport delivered since it was registered,
\* up to those whose put task has not run yet.
C6_ChannelOrder ==
  \A q \in 1..Len(queues) : IsPrefix(queues[q], Expected(q))

\* C6 witness: a queue holds two different payloads, put by two separately
\* scheduled tasks.
C6_Witness ==
  \E q \in 1..Len(queues) :
    /\ Len(queues[q]) = 2
    /\ queues[q][1] # queues[q][2]
    /\ queues[q] = Expected(q)

\* C7: subscribe(m) registers its queue before the request reaches the
\* Transport: a notification for m that the Transport delivers inside
\* send_data is received by the new queue, and so is every later one.
C7_SubscribeBeforeSend ==
  [][ /\ \A m \in SubMethods, p \in ReqParams, sync \in Syncs \ {NoMsgV} :
           ( /\ last'.op = "subscribe"
             /\ protocol # NoProtocol
             /\ sync.method = m
             /\ Subscribe(m, p, sync) )
           => /\ Len(queues') = Len(queues) + 1
              /\ MethodOf(subscriptions', Len(queues')) = m
              /\ ReceivedIn(queues', ready', Len(queues')) = <<sync.params>>
              /\ last'.raised = "none"
      /\ \/ UNCHANGED <<queues, ready, notified, subscriptions, since>>
         \/ \A q \in 1..Len(queues') :
              ReceivedIn(queues', ready', q) = Expected(q)'
    ]_vars

\* C7 witness: subscribe has just returned and its new queue already has
\* the payload the Transport delivered inside send_data.
C7_Witness ==
  /\ last = [op |-> "subscribe", kind |-> "notification", raised |-> "none"]
  /\ queues # <<>>
  /\ Received(Len(queues)) = <<"p1">>
  /\ since[Len(queues)] = Len(notified) - 1

\* C8: a notification whose method has no registered queue is silently
\* dropped: the dispatcher returns without raising and no registry or
\* connection state changes.
C8_UnsubscribedDropped ==
  [][ \A msg \in Notifications :
        ( /\ last'.op = "got_response"
          /\ msg.method \notin DOMAIN subscriptions
          /\ GotResponse(msg) )
        => /\ last'.raised = "none"
           /\ subscriptions' = subscriptions
           /\ inflight' = inflight
           /\ queues' = queues /\ ready' = ready
           /\ protocol' = protocol /\ ka_task' = ka_task
    ]_vars

\* C9: a message with both an id and a method is dropped: the dispatcher
\* does not raise, the pending call with that id stays pending and
\* registered, and no queue receives anything.
C9_IdAndMethodDropped ==
  [][ \A msg \in IdAndMethod :
        (last'.op = "got_response" /\ GotResponse(msg))
        => /\ last'.raised = "none"
           /\ inflight' = inflight
           /\ futs' = futs
           /\ queues' = queues /\ ready' = ready
    ]_vars

\* C10: a message with neither an id nor a method is dropped: the
\* dispatcher returns normally, no pending call is resolved or removed and
\* no queue receives anything.
C10_NeitherDropped ==
  [][ \A msg \in Neither :
        (last'.op = "got_response" /\ GotResponse(msg))
        => /\ last'.raised = "none"
           /\ inflight' = inflight
           /\ futs' = futs
           /\ subscriptions' = subscriptions
           /\ queues' = queues /\ ready' = ready
    ]_vars

\* C10 witness: such a message was just dispatched while a call was
\* pending and a queue was registered.
C10_Witness ==
  /\ last = [op |-> "got_response", kind |-> "neither", raised |-> "none"]
  /\ \E k \in DOMAIN inflight : futs[k].st = "pending"
  /\ queues # <<>>

\* C11: a connection-loss event from a Transport that is not the installed
\* one (superseded, already closed, or any while none is installed) changes
\* nothing: the installed Transport, the KeepAlive handle and its task, the
\* request registry with its futures and the subscription registry stay.
C11_StaleLossIgnored ==
  [][ \A c \in 1..Len(conns) :
        ( /\ last'.op = "connection_lost"
          /\ c # protocol
          /\ ConnectionLost(c) )
        => /\ protocol' = protocol
           /\ ka_task' = ka_task
           /\ tasks' = tasks
           /\ inflight' = inflight
           /\ futs' = futs
           /\ subscriptions' = subscriptions
    ]_vars

\* C11 witness: a superseded connection has just reported its loss while
\* another Transport is installed with its keepalive task alive.
C11_Witness ==
  /\ last.op = "connection_lost"
  /\ protocol # NoProtocol
  /\ ka_task # NoTask /\ tasks[ka_task].pc \in {"start", "await", "sleep"}
  /\ \E c \in 1..Len(conns) : c # protocol /\ conns[c] = "closed"

\* C12: close() is idempotent: from every reachable state a second close()
\* right after a first leaves the state the first one left, closes no
\* Transport and cancels no keepalive task.
C12_CloseIdempotent ==
  LET once == CloseF(C)
      twice == CloseF(once)
  IN /\ twice = once
     /\ ClosedBy(once) = {}
     /\ CancelledBy(once) = {}

\* C12 witness: close() has just closed a Transport and cancelled its
\* keepalive task (a state in which the second close() is evaluated).
C12_Witness ==
  /\ last.op = "close"
  /\ protocol = NoProtocol /\ ka_task = NoTask
  /\ \E c \in 1..Len(conns) : conns[c] = "closing"
  /\ \E t \in 1..Len(tasks) : tasks[t].pc = "cancelled"

\* the keepalive tasks that are neither cancelled nor finished
RunningKA(ts) ==
  {t \in 1..Len(ts) : ts[t].pc \in {"start", "await", "sleep"}}

\* C13: the keepalive task started for a Transport is cancelled when that
\* Transport is discarded by close(), by its loss or by replacement through
\* a later successful connect, so that at most one keepalive task that is
\* not cancelled exists in every reachable state.
C13_OneKeepAlive ==
  /\ Cardinality(RunningKA(tasks)) <= 1
  /\ \A t \in RunningKA(tasks) : t = ka_task

\* C14: in every reachable state, also during connect calls made while
\* connected and under concurrent connect calls, at most one connection of
\* the client is live (established and not closed).
C14_OneLiveTransport ==
  Cardinality({c \in 1..Len(conns) : Live(conns, c)}) <= 1

\* C15: when a connect attempt fails (unsupported protocol code,
\* contradictory options, network failure while connecting) the client has
\* no Transport installed and no keepalive afterwards, whatever state it
\* was in.
C15_FailedConnectUnconnected ==
  [][ ( /\ last'.op = "connect"
        /\ last'.raised # "none" )
      => /\ protocol' = NoProtocol
         /\ ka_task' = NoTask
    ]_vars

\* C16: close() and a connection-loss event never resolve, fail, cancel or
\* remove a pending call (that of an in-flight keepalive ping included) and
\* never remove or close a subscription channel: the request registry, the
\* state of every future and the subscription registry are as before.
C16_PendingUntouched ==
  [][ last'.op \in {"close", "connection_lost"}
      => /\ inflight' = inflight
         /\ futs' = futs
         /\ subscriptions' = subscriptions
         /\ queues' = queues
    ]_vars

\* C17: a response for an id still in the request registry, dispatched
\* while no Transport is installed, resolves normally: the dispatcher does
\* not raise and the future ends fulfilled or failed, for every pending
\* call, one issued by the keepalive loop included.
C17_ResolvesWithoutTransport ==
  [][ \A msg \in Responses :
        ( /\ last'.op = "got_response"
          /\ protocol = NoProtocol
          /\ msg.id \in DOMAIN inflight
          /\ GotResponse(msg) )
        => /\ last'.raised = "none"
           /\ futs'[msg.id].st \in {"fulfilled", "failed"}
    ]_vars

\* C18: the keepalive loop has at most one ping outstanding and does not
\* retry: it sends a ping only when its previous one is no longer pending;
\* when the result of its ping is failed the loop terminates, with the
\* Transport still installed and the registry and every future as they
\* were; a terminated loop never sends again.
C18_KeepAliveNoRetry ==
  [][ \A t \in 1..Len(tasks) :
        /\ ( tasks'[t].ping # tasks[t].ping )
           => \/ tasks[t].ping = 0
              \/ futs[tasks[t].ping].st # "pending"
        /\ ( /\ last'.op = "keepalive"
             /\ tasks[t].pc = "await"
             /\ futs[tasks[t].ping].st = "failed"
             /\ tasks'[t] # tasks[t] )
           => /\ tasks'[t].pc = "raised"
              /\ protocol' = protocol
              /\ inflight' = inflight
              /\ futs' = futs
        /\ ( tasks[t].pc = "raised" ) => tasks'[t] = tasks[t]
    ]_vars

\* C18 witness: the keepalive loop has just terminated on the failed result
\* of its ping while the Transport stays installed and another call is
\* still pending.
C18_Witness ==
  /\ last.op = "keepalive" /\ last.raised = "ElectrumErrorResponse"
  /\ protocol # NoProtocol
  /\ \E t \in 1..Len(tasks) :
       /\ tasks[t].pc = "raised"
       /\ futs[tasks[t].ping].st = "failed"
       /\ \E k \in DOMAIN inflight : k # tasks[t].ping /\ futs[k].st = "pending"

\* C19: in every state between operations the client holds a keepalive
\* handle if and only if it holds an installed Transport.
C19_HandleIffTransport ==
  (ka_task # NoTask) <=> (protocol # NoProtocol)

\* C19 witness: a Transport installed by a connect() that followed the loss
\* of an earlier one, with its keepalive handle.
C19_Witness ==
  /\ last.op = "connected"
  /\ protocol # NoProtocol /\ ka_task # NoTask
  /\ conns[protocol] = "open"
  /\ \E c \in 1..Len(conns) : conns[c] = "closed"
  /\ \E t \in 1..Len(tasks) : tasks[t].pc = "cancelled"

\* C20: a call or subscribe that passes its method check while no Transport
\* is installed fails at the send step (AttributeError), after the id
\* counter has advanced and the pending future (and, for subscribe, the
\* channel) has been registered under the new id.
C20_FailsAfterRegistering ==
  [][ ( /\ last'.op \in {"RPC", "subscribe"}
        /\ last'.raised # "AssertionError"
        /\ protocol = NoProtocol )
      => /\ last'.raised = "AttributeError"
         /\ next_id' = next_id + 1
         /\ DOMAIN inflight' = DOMAIN inflight \cup {next_id'}
         /\ inflight'[next_id'].id = next_id'
         /\ futs'[next_id'].st = "pending"
         /\ IF last'.op = "subscribe"
            THEN /\ Len(queues') = Len(queues) + 1
                 /\ \E m \in DOMAIN subscriptions' :
                      subscriptions'[m][Len(subscriptions'[m])] = Len(queues')
            ELSE /\ queues' = queues
                 /\ subscriptions' = subscriptions
    ]_vars

\* C20 witness: a subscribe on a client that never had a Transport has just
\* failed, and the registries hold its id and its channel.
C20_Witness ==
  /\ last = Last("subscribe", NoMsgV, None, "AttributeError")
  /\ conns = <<>>
  /\ next_id \in DOMAIN inflight
  /\ futs[next_id].st = "pending"
  /\ Len(queues) >= 1
  /\ subscriptions # EmptyMap

====
